---- MODULE Spec2Model ----
(***************************************************************************)
(* Model of src/streamlit_app.py: one browser session of the dashboard.    *)
(* A "cycle" is one run of the script.  The script is straight-line code;  *)
(* it suspends only inside a store call (.execute()), inside               *)
(* time.sleep(0.5), or for good at st.stop() / at the end of the file.     *)
(* The model has one action per stretch of the script between two such     *)
(* points, plus the actions of the environment: the user's widgets, the    *)
(* device inserting rows into the table, and the clock.                    *)
(*                                                                         *)
(* The clock is read in whole seconds and the script's own computation     *)
(* takes no time: time passes only while the script waits.  Angles are     *)
(* whole degrees.                                                          *)
(***************************************************************************)
EXTENDS Integers, Sequences, FiniteSets

VARIABLES
    supabase,         \* the memoized client of init_supabase(): "client" or "None"
    table,            \* rows of the remote table sensor_data
    device,           \* rows the device has still to post
    now,              \* wall clock, in seconds
    time_range,       \* selectbox value
    auto_refresh,     \* checkbox value
    button,           \* "Refresh Now" was clicked and the run it triggers has not started
    rerun_requested,  \* a widget event arrived while a store call was outstanding
    pc,               \* where the script is
    cache,            \* st.cache_data entries, keyed by <<function, argument>>
    req,              \* the store call the script is blocked in, or NoReq
    outstanding,      \* number of store calls in flight
    df,               \* the DataFrame of the current run
    status,           \* warnings and counts computed by the current run, or NoStatus
    sleep_left,       \* seconds the clock may still advance before time.sleep returns
    src,              \* history: where df came from: a call, the cache, no client
    calls,            \* history: store calls issued by the current run
    invalidated,      \* history: cache keys not written since the last cache clear
    hadGood,          \* history: some earlier run rendered a non-empty DataFrame
    nevents           \* history: widget events so far

vars == <<supabase, table, device, now, time_range, auto_refresh, button,
          rerun_requested, pc, cache, req, outstanding, df, status, sleep_left,
          src, calls, invalidated, hadGood, nevents>>

----------------------------------------------------------------------------
(* Bounds of the model *)

MaxTime == 6
MaxLatency == 2
MaxEvents == 2

(* Program constants *)

Hour == 3600
ttl == 5
limit == 25
TiltLimit == 45
HalfTurn == 180
FullTurn == 360

Abs(x) == IF x < 0 THEN -x ELSE x
Min(a, b) == IF a < b THEN a ELSE b
Range(s) == {s[i] : i \in 1..Len(s)}

----------------------------------------------------------------------------
(* Rows of sensor_data.  Only the columns the script's decisions read are   *)
(* kept: id, created_at (ticks; the present is >= 0), orient_y, orient_z,   *)
(* gyro_x/y/z.                                                              *)

Row(i, t, oy, oz, gx, gy, gz) ==
    [id |-> i, created_at |-> t, orient_y |-> oy, orient_z |-> oz,
     gyro_x |-> gx, gyro_y |-> gy, gyro_z |-> gz]

\* The row of the session runs: it leaves the one-hour window when the clock
\* passes 2.
SessionRows ==
    { Row(3,  -Hour + 2,   46, -50, 180, 181,   0) }

\* Rows of the single-cycle runs: tilt values on both sides of the limit and
\* on it, on one axis, on both and on neither; two rows with the same
\* created_at.
DataRows ==
    { Row(1, -25 * Hour,    45, -45,   0, 180, 181),
      Row(2,  -5 * Hour,   -45,  50, 359,  90, 270),
      Row(3,  -Hour + 2,    46, -50, 180, 181,   0),
      Row(4,  -Hour + 2,   -46,  45, 200,   0, 179) }

\* A row whose three angular rates sweep the raw range as a runs over it
Probe(a) == Row(5, 0, 0, 0, a, (a + 120) % FullTurn, (a + 240) % FullTurn)

RawAngles == 0..(FullTurn - 1)

TimeRanges == {"Last 25 readings", "Last 1 hour", "Last 6 hours", "Last 24 hours"}

NoReq == [fn |-> "none"]
NoSrc == [kind |-> "none"]
NoEntry == [present |-> FALSE]
NoStatus == [evaluated |-> FALSE]

LatestKey == <<"fetch_latest_data", limit>>
TimerangeKeys == {<<"fetch_data_by_timerange", h>> : h \in {1, 6, 24}}
Keys == {LatestKey} \cup TimerangeKeys

----------------------------------------------------------------------------
(* Helper functions of the script *)

\* normalize_angle with the half turn itself wrapped
normalize_angle_inclusive(a) == IF a >= HalfTurn THEN a - FullTurn ELSE a

\* normalize_angle(angle): "Convert angle from 0-360 to -180 to 180"
normalize_angle(a) == IF a > HalfTurn THEN a - FullTurn ELSE a

\* check_tilt_warning warning at the limit itself
check_tilt_warning_inclusive(roll, pitch) ==
    [roll_warning |-> Abs(roll) >= TiltLimit, pitch_warning |-> Abs(pitch) >= TiltLimit]

\* check_tilt_warning(roll, pitch)
check_tilt_warning(roll, pitch) ==
    [roll_warning |-> Abs(roll) > TiltLimit, pitch_warning |-> Abs(pitch) > TiltLimit]

\* The guard never taken
empty_never(d) == FALSE

\* df.empty
empty(d) == Len(d) = 0

\* Both fetch functions decorated
is_cached_all(fn) == TRUE

\* Which fetch functions carry @st.cache_data: fetch_data_by_timerange does,
\* fetch_latest_data ("NO CACHING for real-time data") does not.
is_cached(fn) == fn = "fetch_data_by_timerange"

\* Entries that never expire
expired_never(e) == FALSE

\* A cache entry written at e.stored with ttl seconds to live is served while
\* less than ttl seconds old.
expired(e) == now - e.stored >= ttl

Hit(key) == cache[key].present /\ ~expired(cache[key])

\* st.cache_data.clear()
cache_clear == [k \in Keys |-> NoEntry]

\* The mode dispatch: which fetch function, with which argument.
FetchFn == IF time_range = "Last 25 readings" THEN "fetch_latest_data"
           ELSE "fetch_data_by_timerange"

FetchArg == IF time_range = "Last 25 readings" THEN limit
            ELSE IF time_range = "Last 1 hour" THEN 1
            ELSE IF time_range = "Last 6 hours" THEN 6
            ELSE 24

\* time_ago of fetch_data_by_timerange, computed when the call is issued
time_ago(hours) == now - hours * Hour

----------------------------------------------------------------------------
(* The store's answers and what the fetch functions make of them *)

Perms(S) ==
    {s \in [1..Cardinality(S) -> S] : \A i, j \in DOMAIN s : i # j => s[i] # s[j]}

IsAscending(s) == \A i, j \in 1..Len(s) : i < j => s[i].created_at <= s[j].created_at
IsDescending(s) == \A i, j \in 1..Len(s) : i < j => s[i].created_at >= s[j].created_at

\* .order("created_at", desc=...): rows with equal created_at come in any order
order(S, desc) == {s \in Perms(S) : IF desc THEN IsDescending(s) ELSE IsAscending(s)}

\* .limit(n)
Take(s, n) == SubSeq(s, 1, Min(n, Len(s)))

\* The response used as it came
sort_values_none(d) == {d}

\* df.sort_values('created_at'): ascending, not stable
sort_values(d) == {s \in Perms(Range(d)) : IsAscending(s)}

\* A frame with a placeholder row in place of the empty frame
error_result_placeholder == <<Row(0, 0, 0, 0, 0, 0, 0)>>

\* What the except branch of a fetch function returns: pd.DataFrame()
error_result == <<>>

\* The DataFrames fetch_latest_data(n) can return when the call succeeds
latest_results(n) ==
    UNION { LET data == Take(resp, n)
            IN  IF data # <<>> THEN sort_values(data) ELSE {<<>>}
          : resp \in order(table, TRUE) }

\* The DataFrames fetch_data_by_timerange can return when the call succeeds
timerange_results(cutoff) ==
    order({r \in table : r.created_at >= cutoff}, FALSE)

\* Every outcome of the outstanding call: it raises, or it returns rows
Outcomes(r) ==
    {[df |-> error_result, ok |-> FALSE]} \cup
    {[df |-> d, ok |-> TRUE] :
        d \in IF r.fn = "fetch_latest_data" THEN latest_results(r.arg)
              ELSE timerange_results(r.cutoff)}

----------------------------------------------------------------------------
(* Derivation and status evaluation (the script after the empty-data guard) *)

\* df['gyro_*_normalized'] = df['gyro_*'].apply(normalize_angle)
derive(d) ==
    [i \in 1..Len(d) |->
        [id |-> d[i].id, created_at |-> d[i].created_at,
         orient_y |-> d[i].orient_y, orient_z |-> d[i].orient_z,
         gyro_x |-> d[i].gyro_x, gyro_y |-> d[i].gyro_y, gyro_z |-> d[i].gyro_z,
         gyro_x_normalized |-> normalize_angle(d[i].gyro_x),
         gyro_y_normalized |-> normalize_angle(d[i].gyro_y),
         gyro_z_normalized |-> normalize_angle(d[i].gyro_z)]]

\* latest = df.iloc[-1]
latest(d) == d[Len(d)]

\* current_roll = latest['orient_z'];  current_pitch = latest['orient_y']
current_roll(d) == latest(d).orient_z
current_pitch(d) == latest(d).orient_y

RollViolation(r) == Abs(r.orient_z) > TiltLimit
PitchViolation(r) == Abs(r.orient_y) > TiltLimit

\* Roll counted on the pitch axis
roll_violations_pitch(d) == Len(SelectSeq(d, PitchViolation))

\* roll_violations = len(df[abs(df['orient_z']) > 45])
roll_violations(d) == Len(SelectSeq(d, RollViolation))

\* pitch_violations = len(df[abs(df['orient_y']) > 45])
pitch_violations(d) == Len(SelectSeq(d, PitchViolation))

evaluate(d) ==
    LET w == check_tilt_warning(current_roll(d), current_pitch(d))
    IN  [evaluated |-> TRUE,
         current_roll |-> current_roll(d), current_pitch |-> current_pitch(d),
         roll_warning |-> w.roll_warning, pitch_warning |-> w.pitch_warning,
         roll_violations |-> roll_violations(d),
         pitch_violations |-> pitch_violations(d)]

----------------------------------------------------------------------------
(* Initial states *)

Loaded ==
    /\ now = 0
    /\ auto_refresh = TRUE
    /\ button = FALSE
    /\ rerun_requested = FALSE
    /\ pc = "start"
    /\ cache = cache_clear
    /\ req = NoReq
    /\ outstanding = 0
    /\ df = <<>>
    /\ status = NoStatus
    /\ sleep_left = 0
    /\ src = NoSrc
    /\ calls = 0
    /\ invalidated = Keys
    /\ hadGood = FALSE
    /\ nevents = 0

\* The first page load: the selectbox shows its first option
Init ==
    /\ Loaded
    /\ supabase \in {"client", "None"}
    /\ table \in SUBSET SessionRows
    /\ device = SessionRows \ table
    /\ time_range = "Last 25 readings"

\* A run that starts with nothing cached, in any mode, over any table
DataInit ==
    /\ Loaded
    /\ supabase = "client"
    /\ \E S \in SUBSET DataRows :
         \E P \in {{}} \cup {{Probe(a)} : a \in RawAngles} : table = S \cup P
    /\ device = {}
    /\ time_range \in TimeRanges

widgets == <<time_range, auto_refresh, button>>
world == <<supabase, table, device, now>>

\* What the page shows
View ==
    IF pc = "stopped" THEN "nodata"
    ELSE IF pc \in {"sleeping", "done"} THEN "data"
    ELSE "blank"

----------------------------------------------------------------------------
(* The script, from the top of a run to the fetch *)

\* if st.button("Refresh Now"): st.cache_data.clear(); st.rerun()
RefreshNow ==
    /\ pc = "start"
    /\ button
    /\ cache' = cache_clear
    /\ invalidated' = Keys
    /\ button' = FALSE
    /\ df' = <<>>
    /\ src' = NoSrc
    /\ calls' = 0
    /\ status' = NoStatus
    /\ UNCHANGED <<world, time_range, auto_refresh, rerun_requested, pc, req,
                   outstanding, sleep_left, hadGood, nevents>>

\* The fetch function is cached and its entry is alive: no call
ServeCached ==
    LET key == <<FetchFn, FetchArg>>
    IN  /\ pc = "start"
        /\ ~button
        /\ is_cached(FetchFn)
        /\ Hit(key)
        /\ df' = cache[key].df
        /\ src' = [kind |-> "cache", fn |-> FetchFn, arg |-> FetchArg,
                   ok |-> cache[key].ok]
        /\ calls' = 0
        /\ status' = NoStatus
        /\ pc' = "main"
        /\ UNCHANGED <<world, widgets, rerun_requested, cache, req, outstanding,
                       invalidated, sleep_left, hadGood, nevents>>

\* if supabase is None: return pd.DataFrame()
NoClient ==
    LET key == <<FetchFn, FetchArg>>
    IN  /\ pc = "start"
        /\ ~button
        /\ ~(is_cached(FetchFn) /\ Hit(key))
        /\ supabase = "None"
        /\ df' = <<>>
        /\ src' = [kind |-> "noclient", fn |-> FetchFn, arg |-> FetchArg, ok |-> FALSE]
        /\ IF is_cached(FetchFn)
           THEN /\ cache' = [cache EXCEPT ![key] =
                       [present |-> TRUE, df |-> <<>>, ok |-> FALSE, called |-> FALSE,
                        issued |-> now, stored |-> now, cutoff |-> 0]]
                /\ invalidated' = invalidated \ {key}
           ELSE UNCHANGED <<cache, invalidated>>
        /\ calls' = 0
        /\ status' = NoStatus
        /\ pc' = "main"
        /\ UNCHANGED <<world, widgets, rerun_requested, req, outstanding,
                       sleep_left, hadGood, nevents>>

\* supabase.table("sensor_data")...execute(): the script blocks in the call
IssueCall ==
    LET key == <<FetchFn, FetchArg>>
    IN  /\ pc = "start"
        /\ ~button
        /\ ~(is_cached(FetchFn) /\ Hit(key))
        /\ supabase = "client"
        /\ req' = [fn |-> FetchFn, arg |-> FetchArg, issued |-> now,
                   cutoff |-> IF FetchFn = "fetch_data_by_timerange"
                              THEN time_ago(FetchArg) ELSE 0]
        /\ outstanding' = outstanding + 1
        /\ calls' = 1
        /\ df' = <<>>
        /\ src' = NoSrc
        /\ status' = NoStatus
        /\ pc' = "fetching"
        /\ UNCHANGED <<world, widgets, rerun_requested, cache, invalidated,
                       sleep_left, hadGood, nevents>>

----------------------------------------------------------------------------
(* The store call returns *)

\* A call that does not hold the script
CallOutstanding_never == FALSE

\* The script is inside .execute(): no Streamlit call is made until it returns,
\* so a rerun asked for meanwhile waits for the call to end.
CallOutstanding == pc = "fetching"

\* The call ends with outcome o.  A failure is reported with st.error inside
\* the fetch function, where a pending rerun ends the run before the function
\* returns (nothing is cached); after a success a pending rerun ends the run
\* at the next Streamlit call, the result being cached already.
StoreReply ==
    /\ pc = "fetching"
    /\ outstanding > 0
    /\ \E o \in Outcomes(req) :
        LET key == <<req.fn, req.arg>>
        IN  /\ IF is_cached(req.fn) /\ ~(rerun_requested /\ ~o.ok)
               THEN /\ cache' = [cache EXCEPT ![key] =
                           [present |-> TRUE, df |-> o.df, ok |-> o.ok, called |-> TRUE,
                            issued |-> req.issued, stored |-> now,
                            cutoff |-> req.cutoff]]
                    /\ invalidated' = invalidated \ {key}
               ELSE UNCHANGED <<cache, invalidated>>
            /\ IF rerun_requested
               THEN /\ pc' = "start"
                    /\ df' = <<>>
                    /\ src' = NoSrc
               ELSE /\ pc' = "main"
                    /\ df' = o.df
                    /\ src' = [kind |-> "call", fn |-> req.fn, arg |-> req.arg,
                               ok |-> o.ok]
    /\ req' = NoReq
    /\ outstanding' = outstanding - 1
    /\ rerun_requested' = FALSE
    /\ UNCHANGED <<world, widgets, calls, status, sleep_left, hadGood, nevents>>

----------------------------------------------------------------------------
(* The script after the fetch *)

\* if df.empty: st.warning("No data available ..."); st.stop()
NoData ==
    /\ pc = "main"
    /\ empty(df)
    /\ pc' = "stopped"
    /\ UNCHANGED <<world, widgets, rerun_requested, cache, req, outstanding, df,
                   status, sleep_left, src, calls, invalidated, hadGood, nevents>>

\* Normalization, warnings, metrics, charts, statistics, then the auto-refresh
\* tail: time.sleep(0.5); st.rerun().  Indexing a DataFrame without rows or
\* columns raises.  The half second of sleep ends within the second it began
\* in or in the next one.
Render ==
    /\ pc = "main"
    /\ ~empty(df)
    /\ IF Len(df) = 0
       THEN /\ pc' = "raised"
            /\ UNCHANGED <<df, status, hadGood, sleep_left>>
       ELSE /\ df' = derive(df)
            /\ status' = evaluate(df')
            /\ hadGood' = TRUE
            /\ IF auto_refresh
               THEN pc' = "sleeping" /\ sleep_left' = 1
               ELSE pc' = "done" /\ UNCHANGED sleep_left
    /\ UNCHANGED <<world, widgets, rerun_requested, cache, req, outstanding, src,
                   calls, invalidated, nevents>>

\* time.sleep(0.5) returns; st.rerun()
Wake ==
    /\ pc = "sleeping"
    /\ pc' = "start"
    /\ sleep_left' = 0
    /\ UNCHANGED <<world, widgets, rerun_requested, cache, req, outstanding, df,
                   status, src, calls, invalidated, hadGood, nevents>>

----------------------------------------------------------------------------
(* The user, at most MaxEvents times *)

\* A widget event asks for a rerun: the current run, if any, is dropped and a
\* new one starts, once the script is not inside a store call.
Rerun ==
    /\ pc \notin {"start", "main"}
    /\ nevents < MaxEvents
    /\ nevents' = nevents + 1
    /\ IF CallOutstanding
       THEN rerun_requested' = TRUE /\ UNCHANGED <<pc, sleep_left>>
       ELSE pc' = "start" /\ sleep_left' = 0 /\ UNCHANGED rerun_requested

SelectTimeRange ==
    /\ \E m \in TimeRanges \ {time_range} : time_range' = m
    /\ Rerun
    /\ UNCHANGED <<world, auto_refresh, button, cache, req, outstanding, df,
                   status, src, calls, invalidated, hadGood>>

ToggleAutoRefresh ==
    /\ auto_refresh' = ~auto_refresh
    /\ Rerun
    /\ UNCHANGED <<world, time_range, button, cache, req, outstanding, df,
                   status, src, calls, invalidated, hadGood>>

ClickRefresh ==
    /\ button' = TRUE
    /\ Rerun
    /\ UNCHANGED <<world, time_range, auto_refresh, cache, req, outstanding, df,
                   status, src, calls, invalidated, hadGood>>

----------------------------------------------------------------------------
(* The device and the clock *)

\* The device posts a reading
Insert ==
    /\ \E r \in device :
        /\ table' = table \cup {r}
        /\ device' = device \ {r}
    /\ UNCHANGED <<supabase, now, widgets, rerun_requested, pc, cache, req,
                   outstanding, df, status, sleep_left, src, calls, invalidated,
                   hadGood, nevents>>

\* A second passes while the script waits: in a store call (which ends, by
\* reply, error or timeout, within MaxLatency), in time.sleep, or after the
\* run has ended
Tick ==
    /\ pc \in {"fetching", "sleeping", "stopped", "done", "raised"}
    /\ pc = "fetching" => now - req.issued < MaxLatency
    /\ pc = "sleeping" => sleep_left > 0
    /\ now < MaxTime
    /\ now' = now + 1
    /\ sleep_left' = 0
    /\ UNCHANGED <<supabase, table, device, widgets, rerun_requested, pc, cache,
                   req, outstanding, df, status, src, calls, invalidated, hadGood,
                   nevents>>

----------------------------------------------------------------------------
Script ==
    \/ RefreshNow
    \/ ServeCached
    \/ NoClient
    \/ IssueCall
    \/ StoreReply
    \/ NoData
    \/ Render
    \/ Wake

Next ==
    \/ RefreshNow
    \/ ServeCached
    \/ NoClient
    \/ IssueCall
    \/ StoreReply
    \/ NoData
    \/ Render
    \/ Wake
    \/ SelectTimeRange
    \/ ToggleAutoRefresh
    \/ ClickRefresh
    \/ Insert
    \/ Tick

\* One session, from the first page load
Spec == Init /\ [][Next]_vars

\* The script runs when it can, a store call ends (it returns, raises or
\* times out), and the clock advances.  Nothing obliges the user or the device.
FairSpec == Spec /\ WF_vars(Script) /\ WF_vars(Tick)

\* One cycle over any table: the fetch, then the guard and the evaluation
DataNext ==
    \/ IssueCall
    \/ StoreReply
    \/ NoData
    \/ Render

DataSpec == DataInit /\ [][DataNext]_vars

----------------------------------------------------------------------------
(* Properties *)

\* The run has ended or is asleep before its rerun: the page is drawn
Presented == pc \in {"stopped", "sleeping", "done", "raised"}

\* The fetch of the current run failed: the call raised, or there is no client
FetchFailed == src.kind \in {"call", "noclient"} /\ ~src.ok

WindowRanges == TimeRanges \ {"Last 25 readings"}

\* C1: a cycle whose fetch failed while auto-refresh is enabled is eventually
\* followed by a new cycle (and so by a new fetch attempt) without any user
\* action.
C1_FailedCycleIsRetried ==
    (pc = "stopped" /\ auto_refresh /\ FetchFailed) ~> (pc = "start")

\* C2 as stated: when the fetch fails after an earlier cycle rendered a
\* non-empty Dataset, that Dataset is what the page shows; "no data" is shown
\* only when no earlier cycle succeeded.
C2_LastKnownGoodShown ==
    (Presented /\ FetchFailed) =>
        IF hadGood THEN View = "data" ELSE View = "nodata"

\* C2 amended: when the fetch of a cycle fails, the page shows "no data" and
\* nothing is evaluated, whether or not an earlier cycle succeeded.
C2_NoDataOnFailure ==
    (Presented /\ FetchFailed) =>
        /\ View = "nodata"
        /\ ~status.evaluated
        /\ df = <<>>

C2_FailureAfterSuccess == pc = "stopped" /\ FetchFailed /\ hadGood

C7_EvaluationGuarded ==
    /\ pc # "raised"
    /\ status.evaluated => Len(df) > 0
    /\ View = "data" => status.evaluated /\ Len(df) > 0
    /\ View = "nodata" => ~status.evaluated /\ Len(df) = 0

C7_NoMatchingRows ==
    /\ View = "nodata"
    /\ time_range = "Last 1 hour"
    /\ src.kind = "call"
    /\ src.ok
    /\ table # {}
    /\ \A r \in table : r.created_at < cache[<<"fetch_data_by_timerange", 1>>].cutoff

\* The run has fetched: df is its DataFrame and the widgets are those it read
Fetched == pc \in {"main", "stopped", "sleeping", "done"}

\* C4 as stated: every cycle in mode "Last 25 readings" issues exactly one
\* fetch_latest_data(25) call to the store and takes its DataFrame from it.
C4_ExactlyOneCall ==
    (Fetched /\ time_range = "Last 25 readings") =>
        /\ calls = 1
        /\ src.kind = "call"
        /\ src.fn = "fetch_latest_data"
        /\ src.arg = 25

\* C4 amended: a cycle in mode "Last 25 readings" never reuses an earlier
\* result and nothing of it is cached; with a client it issues exactly one
\* fetch_latest_data(25) call and takes its DataFrame from it, without a
\* client it issues no call and its DataFrame is empty.
C4_NeverReused ==
    (Fetched /\ time_range = "Last 25 readings") =>
        /\ src.fn = "fetch_latest_data"
        /\ src.arg = 25
        /\ src.kind # "cache"
        /\ ~cache[<<"fetch_latest_data", 25>>].present
        /\ IF supabase = "client"
           THEN calls = 1 /\ src.kind = "call"
           ELSE calls = 0 /\ src.kind = "noclient" /\ Len(df) = 0

C4_FreshAfterOtherModes ==
    /\ pc = "main"
    /\ time_range = "Last 25 readings"
    /\ src.kind = "call"
    /\ hadGood
    /\ \E k \in TimerangeKeys : cache[k].present /\ now - cache[k].stored < 5

\* The hours of a window mode
Hours(m) == IF m = "Last 1 hour" THEN 1 ELSE IF m = "Last 6 hours" THEN 6 ELSE 24

\* C5 as stated: the DataFrame of a cycle in a window mode is the result of a
\* store call for the same mode with cutoff t - N hours, issued at a time t at
\* most 5 seconds before the cycle.
C5_CallAtMostFiveSecondsOld ==
    (pc = "main" /\ time_range \in WindowRanges) =>
        LET e == cache[<<"fetch_data_by_timerange", Hours(time_range)>>]
        IN  /\ e.present
            /\ e.df = df
            /\ e.called
            /\ e.cutoff = e.issued - Hours(time_range) * 3600
            /\ now - e.issued <= 5

\* C5 amended: the DataFrame of a cycle in a window mode is the cache entry of
\* that mode, written less than 5 seconds before and after the last manual
\* refresh; the cycle issues a call unless such an entry exists.  With a
\* client the entry is the outcome of a call with cutoff t - N hours issued at
\* a time t not later than the entry was written; without a client it is the
\* empty DataFrame and no call is issued.  A cleared entry is not kept.
C5_ServedWhileFresh ==
    /\ \A k \in invalidated : ~cache[k].present
    /\ (pc = "main" /\ time_range \in WindowRanges) =>
        LET key == <<"fetch_data_by_timerange", Hours(time_range)>>
            e == cache[key]
        IN  /\ e.present
            /\ e.df = df
            /\ key \notin invalidated
            /\ now - e.stored < 5
            /\ src.kind = "cache" => calls = 0
            /\ src.kind # "cache" => e.stored = now
            /\ IF supabase = "client"
               THEN /\ e.called
                    /\ e.cutoff = e.issued - Hours(time_range) * 3600
                    /\ e.issued <= e.stored
                    /\ src.kind \in {"call", "cache"}
                    /\ src.kind = "call" => calls = 1
               ELSE /\ ~e.called
                    /\ Len(df) = 0
                    /\ calls = 0
                    /\ src.kind \in {"noclient", "cache"}

C5_ServedAtFourSeconds ==
    /\ pc = "main"
    /\ time_range \in WindowRanges
    /\ src.kind = "cache"
    /\ cache[<<"fetch_data_by_timerange", Hours(time_range)>>].called
    /\ now - cache[<<"fetch_data_by_timerange", Hours(time_range)>>].stored = 4

\* The DataFrame is in the hands of the script after the fetch functions
Handed == pc \in {"main", "sleeping", "done"}

C8_StrictThreshold ==
    status.evaluated =>
        LET z == df[Len(df)].orient_z
            y == df[Len(df)].orient_y
        IN  /\ status.current_roll = z
            /\ status.current_pitch = y
            /\ status.roll_warning <=> (z > 45 \/ z < -45)
            /\ status.pitch_warning <=> (y > 45 \/ y < -45)
            /\ z \in {45, -45} => ~status.roll_warning
            /\ y \in {45, -45} => ~status.pitch_warning

C8_AtTheLimit ==
    /\ status.evaluated
    /\ df[Len(df)].orient_z = 45
    /\ ~status.roll_warning
    /\ df[Len(df)].orient_y = -46
    /\ status.pitch_warning
    /\ status.roll_violations >= 1

\* What C9 requires of a raw value a in 0..359 and its normalized value n
Recentred(a, n) ==
    /\ n = (IF a > 180 THEN a - 360 ELSE a)
    /\ n > -180
    /\ n <= 180
    /\ a = 0 => n = 0
    /\ a = 180 => n = 180
    /\ a = 181 => n = -179

\* C9: on each of the three gyro axes a raw value a in 0..359 is normalized to
\* a - 360 when a > 180 and to a otherwise, the result lying above -180 and
\* at most 180; 0 gives 0, 180 gives 180, 181 gives -179.
C9_Normalized ==
    status.evaluated =>
        \A i \in 1..Len(df) :
            /\ df[i].gyro_x \in 0..359 => Recentred(df[i].gyro_x, df[i].gyro_x_normalized)
            /\ df[i].gyro_y \in 0..359 => Recentred(df[i].gyro_y, df[i].gyro_y_normalized)
            /\ df[i].gyro_z \in 0..359 => Recentred(df[i].gyro_z, df[i].gyro_z_normalized)

C9_HalfTurnKept ==
    /\ status.evaluated
    /\ \E i \in 1..Len(df) :
        /\ df[i].gyro_x = 180 /\ df[i].gyro_x_normalized = 180
        /\ df[i].gyro_y = 181 /\ df[i].gyro_y_normalized = -179
        /\ df[i].gyro_z = 0 /\ df[i].gyro_z_normalized = 0

\* C10: roll_violations is the number of rows of the whole DataFrame with
\* orient_z above 45 or below -45, pitch_violations the number with orient_y
\* so; a roll warning implies roll_violations >= 1; two rows of which only the
\* second has orient_z = 50 give a roll warning and roll_violations = 1.
C10_CountsOverAllRows ==
    status.evaluated =>
        /\ status.roll_violations =
              Cardinality({i \in 1..Len(df) : df[i].orient_z > 45 \/ df[i].orient_z < -45})
        /\ status.pitch_violations =
              Cardinality({i \in 1..Len(df) : df[i].orient_y > 45 \/ df[i].orient_y < -45})
        /\ status.roll_warning => status.roll_violations >= 1
        /\ status.pitch_warning => status.pitch_violations >= 1
        /\ (Len(df) = 2 /\ df[1].orient_z \in -45..45 /\ df[2].orient_z = 50)
              => (status.roll_warning /\ status.roll_violations = 1)

C10_ScenarioA ==
    /\ status.evaluated
    /\ Len(df) = 2
    /\ df[1].orient_z = -45
    /\ df[2].orient_z = 50
    /\ status.roll_warning
    /\ status.roll_violations = 1
    /\ status.pitch_violations = 0

====
